---- MODULE Spec2Model ----
(***************************************************************************)
(* A model of email_builder/cli.py: the Selector, the weighted attachment-  *)
(* count draw, the temporal model, the relay-chain simulator, the message   *)
(* assembler and the generation loop.                                       *)
(*                                                                          *)
(* Times are whole seconds counted from 00:00:00 UTC of the first day of    *)
(* the date range.  Strings are sequences of one-character strings; the     *)
(* characters CR and LF are written "CR" and "LF".  Weights and             *)
(* probabilities are in hundredths.                                         *)
(***************************************************************************)
EXTENDS Integers, Sequences, FiniteSets, TLC

VARIABLES
    mode, idx,              \* Selector.mode, Selector._idx
    pool, ncalls, ret,      \* the Selector's callers: pool per key, calls made, last value returned
    wc,                     \* a call of weighted_choice
    rd,                     \* a call of random_date_weighted
    rh,                     \* a call of gen_received_headers
    sb,                     \* the subject derivation of build_email
    config, unreadable,     \* run_generation's config and pools; the files whose read fails
    i, pc, sel, count, attach_list, msg, written, failed, warnings,   \* run_generation
    runs                    \* two runs of run_generation under one seed

vars == <<mode, idx, pool, ncalls, ret, wc, rd, rh, sb, config, unreadable,
          i, pc, sel, count, attach_list, msg, written, failed, warnings, runs>>

-----------------------------------------------------------------------------
(* Bounds of the model *)

MaxPool == 3        \* largest pool handed to the Selector
MaxCalls == 4       \* calls of Selector.choose per key
MaxEmails == 2      \* largest num_emails
MaxLen == 3         \* longest body text
MaxDaySpan == 1     \* most days between the first and the last day of a date range

-----------------------------------------------------------------------------
(* Generic helpers *)

RECURSIVE SumWeights(_)
SumWeights(ps) == IF ps = <<>> THEN 0 ELSE ps[1][2] + SumWeights(Tail(ps))

\* Optional[T]: None is the empty sequence, a value x is <<x>>.
None == <<>>
Some(x) == <<x>>
IsNone(o) == o = <<>>
Val(o) == o[1]

Min(S) == CHOOSE x \in S : \A y \in S : x <= y

\* Of the draws lo..hi: the least and the greatest, and those with the middle one
Ends(lo, hi) == {lo, hi}
Sample(lo, hi) == {lo, (lo + hi) \div 2, hi}

Take(s, n) == SubSeq(s, 1, IF n < Len(s) THEN n ELSE Len(s))
Drop(s, n) == SubSeq(s, n + 1, Len(s))

-----------------------------------------------------------------------------
(* Selector *)

KEY_FROM == 1
KEY_TO == 2
KEY_TEXT == 3
KEY_HTML == 4
KEY_ATTACH == 5

\* dict.get(key, 0)
IdxGet(ix, key) == IF key \in DOMAIN ix THEN ix[key] ELSE 0

\* dict[key] = v
IdxSet(ix, key, v) == [k \in DOMAIN ix \cup {key} |-> IF k = key THEN v ELSE ix[k]]

\* A slip of the cursor update: the cursor is not advanced.
SelectorChooseStuck(m, ix, key, items, pick) ==
    IF items = <<>> THEN [raised |-> TRUE, value |-> "ValueError", idx |-> ix]
    ELSE IF m = "random" THEN [raised |-> FALSE, value |-> items[pick], idx |-> ix]
    ELSE [raised |-> FALSE,
          value |-> items[(IdxGet(ix, key) % Len(items)) + 1],
          idx |-> IdxSet(ix, key, IdxGet(ix, key) % Len(items))]

\* Selector.choose(key, items); pick is the draw of random.choice (1..len).
SelectorChoose(m, ix, key, items, pick) ==
    IF items = <<>> THEN [raised |-> TRUE, value |-> "ValueError", idx |-> ix]
    ELSE IF m = "random" THEN [raised |-> FALSE, value |-> items[pick], idx |-> ix]
    ELSE [raised |-> FALSE,
          value |-> items[(IdxGet(ix, key) % Len(items)) + 1],
          idx |-> IdxSet(ix, key, (IdxGet(ix, key) + 1) % Len(items))]

-----------------------------------------------------------------------------
(* weighted_choice *)

ATTACH_COUNT_DIST == << <<1, 80>>, <<2, 15>>, <<3, 4>>, <<4, 1>> >>

\* A slip of the filter: the pair after the cap passes too (c <= max_cap + 1).
CapFilterWide(pairs, max_cap) == SelectSeq(pairs, LAMBDA p : p[1] <= max_cap + 1)

CapFilter(pairs, max_cap) == SelectSeq(pairs, LAMBDA p : p[1] <= max_cap)

RECURSIVE WeightedLoop(_, _, _)
WeightedLoop(ps, upto, r) ==
    IF Len(ps) = 1 THEN ps[1][1]      \* the last item: returned by the loop or by items[-1]
    ELSE IF upto + ps[1][2] >= r THEN ps[1][1]
    ELSE WeightedLoop(Tail(ps), upto + ps[1][2], r)

\* weighted_choice(pairs, max_cap); r is random.random() * total.
\* Unpacking zip(*[]) raises ValueError when no pair survives the filter.
WeightedChoice(pairs, max_cap, r) ==
    LET kept == CapFilter(pairs, max_cap) IN
    IF kept = <<>> THEN [raised |-> TRUE, value |-> 0]
    ELSE IF SumWeights(kept) <= 0 THEN [raised |-> FALSE, value |-> 1]
    ELSE [raised |-> FALSE, value |-> WeightedLoop(kept, 0, r)]

\* The values random.random() * total takes, to the hundredth.
WeightDraws(pairs, max_cap) == 0 .. SumWeights(CapFilter(pairs, max_cap))

-----------------------------------------------------------------------------
(* Text helpers: strip_html, sanitize_subject, parse_domain_from_email *)

Chars == {"a", " ", "CR", "LF", "<", ">"}
Newlines == {"CR", "LF"}
Whitespace == {" ", "CR", "LF"}

RECURSIVE LStrip(_)
LStrip(s) == IF s # <<>> /\ s[1] \in Whitespace THEN LStrip(Tail(s)) ELSE s

RECURSIVE RStrip(_)
RStrip(s) == IF s # <<>> /\ s[Len(s)] \in Whitespace THEN RStrip(SubSeq(s, 1, Len(s) - 1)) ELSE s

\* str.strip()
Strip(s) == RStrip(LStrip(s))

RECURSIVE SkipWhile(_, _)
SkipWhile(s, cls) == IF s # <<>> /\ s[1] \in cls THEN SkipWhile(Tail(s), cls) ELSE s

\* re.sub(r"[cls]+", " ", s): every maximal run of characters of cls becomes one space
RECURSIVE SubRuns(_, _)
SubRuns(s, cls) ==
    IF s = <<>> THEN <<>>
    ELSE IF s[1] \in cls THEN <<" ">> \o SubRuns(SkipWhile(s, cls), cls)
    ELSE <<s[1]>> \o SubRuns(Tail(s), cls)

\* The end of a match of <[^>]+> at the head of s, 0 when there is none:
\* "<", at least one character other than ">", then the first ">".
TagEnd(s) ==
    IF Len(s) >= 3 /\ s[1] = "<" /\ s[2] # ">" /\ (\E k \in 3..Len(s) : s[k] = ">")
    THEN Min({k \in 3..Len(s) : s[k] = ">"})
    ELSE 0

\* re.sub(r"<[^>]+>", " ", s)
RECURSIVE SubTags(_)
SubTags(s) ==
    IF s = <<>> THEN <<>>
    ELSE IF TagEnd(s) > 0 THEN <<" ">> \o SubTags(Drop(s, TagEnd(s)))
    ELSE <<s[1]>> \o SubTags(Tail(s))

strip_html(html_text) == Strip(SubRuns(SubTags(html_text), Whitespace))

\* A slip of sanitize_subject: the newlines are kept and only the ends are trimmed.
sanitize_subject_keep(s) == Strip(s)

sanitize_subject(s) == Strip(SubRuns(s, Newlines))

NoSubject == <<"N", "o", " ", "s", "u", "b", "j", "e", "c", "t">>
NoText == <<"(", "n", "o", " ", "t", "e", "x", "t", ")">>

\* Lines 419-423 of build_email: the subject from the bodies.
DeriveSubject(is_html, subject_len, text_body, html_body) ==
    LET subj_source == IF is_html /\ ~IsNone(html_body)
                       THEN strip_html(Val(html_body)) ELSE text_body
        subject == sanitize_subject(Take(subj_source, subject_len))
    IN  IF subject = <<>> THEN NoSubject ELSE subject

\* addr.split("@", 1): the part after the first "@", or "localhost"
parse_domain_from_email(addr) ==
    IF \E k \in 1..Len(addr) : addr[k] = "@"
    THEN Drop(addr, Min({k \in 1..Len(addr) : addr[k] = "@"}))
    ELSE <<"l", "o", "c", "a", "l", "h", "o", "s", "t">>

-----------------------------------------------------------------------------
(* Dates: random_date_weighted *)

DayMinutes == 24 * 60
DaySeconds == DayMinutes * 60

DateOf(t) == t \div DaySeconds                          \* datetime.date(), as a day number
MinuteOfDay(t) == (t % DaySeconds) \div 60   \* hour * 60 + minute

\* random.randint(1, 100) and line 322
BiasDraws == 1..100
InBusiness(r100, business_bias) == r100 <= business_bias

\* A slip of the business draw: randint(start, end), the window's end minute included.
MinuteDrawsInclusive(business_start_min, business_end_min, in_business) ==
    IF in_business /\ business_start_min < business_end_min
    THEN business_start_min .. business_end_min
    ELSE LET off_all == (0 .. (business_start_min - 1)) \cup (business_end_min .. (DayMinutes - 1))
         IN  IF off_all = {} THEN business_start_min .. (business_end_min - 1) ELSE off_all

\* Lines 324-333: the minutes the minute draw is taken from.
MinuteDraws(business_start_min, business_end_min, in_business) ==
    IF in_business /\ business_start_min < business_end_min
    THEN business_start_min .. (business_end_min - 1)
    ELSE LET off_all == (0 .. (business_start_min - 1)) \cup (business_end_min .. (DayMinutes - 1))
         IN  IF off_all = {} THEN business_start_min .. (business_end_min - 1) ELSE off_all

\* Of random.randint(0, 59): the first and the last second
SecondSample == Ends(0, 59)

\* random_date_weighted, given its draws d = [day_offset, minute_in_day, second].
\* candidate is dt before the clamp, dt the value returned.
RandomDateWeighted(start, end, d) ==
    LET day == DateOf(start) + d.day_offset
        candidate == day * DaySeconds + d.minute_in_day * 60 + d.second
    IN  [raised |-> DateOf(start) > DateOf(end),
         day |-> day,
         candidate |-> candidate,
         dt |-> IF candidate < start THEN start
                ELSE IF candidate > end THEN end
                ELSE candidate]

-----------------------------------------------------------------------------
(* Relay chain: gen_received_headers *)

HopsMin == 1
HopsMax == 3

OffsetMinuteDraws == 5..15          \* random.randint(5, 15)
HopSecondSample == Sample(30, 90)   \* of random.randint(30, 90): 30, 60 and 90
WordMax == 16^4 - 1                 \* the greatest 16-bit word of a draw
PseudoIdDraws == {<<x, x>> : x \in Ends(0, WordMax)}         \* random.randrange(16**8), two words
RandBitsDraws == {<<x, x, x, x>> : x \in Ends(0, WordMax)}   \* random.getrandbits(64), four words

\* email.utils.formatdate(t, localtime): whole seconds and the zone
FormatDate(t, localtime, zone) == [secs |-> t, zone |-> IF localtime THEN zone ELSE "-0000"]

RECURSIVE SumTo(_, _)
SumTo(secs, k) == IF k = 0 THEN 0 ELSE secs[k] + SumTo(secs, k - 1)

\* A slip of the offset: the first hop is put d.minutes seconds, not minutes, before the anchor.
HopTimesSeconds(anchor, d) ==
    LET oldest == anchor - d.minutes
    IN  [k \in 1..d.hops |-> oldest + SumTo(d.secs, k)]

\* Lines 365-371: hop_times, from the anchor and the draws.
HopTimes(anchor, d) ==
    LET oldest == anchor - d.minutes * 60
    IN  [k \in 1..d.hops |-> oldest + SumTo(d.secs, k)]

\* gen_received_headers(relay_hosts, base_date=base_date) at wall-clock time now,
\* given its draws d = [hops, chain, minutes, secs, ids].
GenReceivedHeaders(relay_hosts, base_date, now, d) ==
    IF relay_hosts = <<>> THEN <<>>
    ELSE LET anchor == IF IsNone(base_date) THEN now ELSE Val(base_date)
             hop_times == HopTimes(anchor, d)
         IN  [k \in 1..d.hops |->
                 [src |-> relay_hosts[d.chain[k]],
                  dst |-> relay_hosts[d.chain[k + 1]],
                  id |-> d.ids[k],
                  time |-> hop_times[k],
                  date |-> FormatDate(hop_times[k], FALSE, "-0000")]]

\* The draws of one call: hops, hops + 1 hosts, the offset, one step and one id per hop.
RelayDraws(relay_hosts, Minutes, Secs, Ids) ==
    IF relay_hosts = <<>> THEN {[hops |-> 0, chain |-> <<>>, minutes |-> 0, secs |-> <<>>, ids |-> <<>>]}
    ELSE UNION {
           {[hops |-> h, chain |-> c, minutes |-> m, secs |-> ss, ids |-> [k \in 1..h |-> x]] :
                c \in [1..(h + 1) -> 1..Len(relay_hosts)], m \in Minutes,
                ss \in [1..h -> Secs], x \in Ids}
           : h \in HopsMin..HopsMax}

-----------------------------------------------------------------------------
(* Input files *)

\* load_text(path): the text of a body file
FileText(path) ==
    CASE path = "t1.txt" -> <<"a", "LF", "a", "a">>
      [] path = "t2.txt" -> <<" ", "CR", "LF">>
      [] path = "h1.html" -> <<"<", "a", ">", "a", "LF", "a">>
      [] OTHER -> <<>>

\* mimetypes.guess_type(path)[0]
GuessType(path) ==
    CASE path = "a.pdf" -> Some(<<"application", "pdf">>)
      [] path = "b.txt" -> Some(<<"text", "plain">>)
      [] OTHER -> None

guess_mime_type(path) ==
    IF IsNone(GuessType(path)) THEN <<"application", "octet-stream">> ELSE Val(GuessType(path))

-----------------------------------------------------------------------------
(* build_email *)

\* A slip of the handler: the first failing read ends the loop.
RECURSIVE AttachUntilFailure(_, _)
AttachUntilFailure(attach_paths, bad) ==
    IF attach_paths = <<>> \/ attach_paths[1] \in bad THEN <<>>
    ELSE <<[filename |-> attach_paths[1], type |-> guess_mime_type(attach_paths[1]),
            data |-> attach_paths[1]]>>
         \o AttachUntilFailure(Tail(attach_paths), bad)

\* Lines 433-439: the attachments added, those whose read does not fail.
AddAttachments(attach_paths, bad) ==
    [k \in 1..Len(SelectSeq(attach_paths, LAMBDA ap : ap \notin bad)) |->
        LET ap == SelectSeq(attach_paths, LAMBDA q : q \notin bad)[k]
        IN  [filename |-> ap, type |-> guess_mime_type(ap), data |-> ap]]

\* build_email; d = [relay, bits] are its draws, w = [now, pid, zone] the clock,
\* the process and the local zone, bad the files whose read fails.
BuildEmail(from_addr, to_addr, is_html, subject_len, text_body, html_body, attach_paths, relay_hosts, msg_date, d, w, bad) ==
    LET html == is_html /\ ~IsNone(html_body)
        fallback_text == IF text_body = <<>> THEN strip_html(Val(html_body)) ELSE text_body
        content == IF html THEN fallback_text ELSE text_body
    IN  [received |-> GenReceivedHeaders(relay_hosts, msg_date, w.now, d.relay),
         from |-> from_addr,
         to |-> to_addr,
         message_id |-> [timeval |-> w.now * 100, pid |-> w.pid, randint |-> d.bits,
                         domain |-> parse_domain_from_email(from_addr)],
         date |-> IF ~IsNone(msg_date) THEN FormatDate(Val(msg_date), FALSE, w.zone)
                  ELSE FormatDate(w.now, TRUE, w.zone),
         x_mailer |-> "email_builder/1.0",
         subject |-> DeriveSubject(is_html, subject_len, text_body, html_body),
         text |-> IF content = <<>> THEN NoText ELSE content,
         html |-> IF html THEN html_body ELSE None,
         attachments |-> AddAttachments(attach_paths, bad)]

\* Line 439: the attachments skipped with a warning
Skipped(attach_paths, bad) == SelectSeq(attach_paths, LAMBDA ap : ap \in bad)

-----------------------------------------------------------------------------
(* The variables a specification does not use *)

SelectorIdle == mode = "random" /\ idx = <<>>
CallerIdle == pool = <<>> /\ ncalls = <<>> /\ ret = <<>>
WcIdle == wc = <<>>
RdIdle == rd = <<>>
RhIdle == rh = <<>>
SbIdle == sb = <<>>
RunIdle ==
    /\ config = <<>> /\ unreadable = {}
    /\ i = 0 /\ pc = "idle" /\ sel = <<>> /\ count = 0 /\ attach_list = <<>> /\ msg = <<>>
    /\ written = <<>> /\ failed = 0 /\ warnings = <<>>
RunsIdle == runs = <<>>

runVars == <<config, unreadable, i, pc, sel, count, attach_list, msg, written, failed, warnings>>

-----------------------------------------------------------------------------
(* SpecSelector: callers of Selector.choose, each key with its own pool *)

SelKeys == {KEY_FROM, KEY_TO}

Items(key, K) == [k \in 1..K |-> <<key, k>>]

InitSelector ==
    /\ mode \in {"random", "linear"}
    /\ idx = <<>>
    /\ pool \in {[key \in SelKeys |-> Items(key, K[key])] : K \in [SelKeys -> 1..MaxPool]}
    /\ ncalls = [key \in SelKeys |-> 0]
    /\ ret = [key \in SelKeys |-> <<>>]
    /\ WcIdle /\ RdIdle /\ RhIdle /\ SbIdle /\ RunIdle /\ RunsIdle

\* random.choice(items), as a position; not drawn in linear mode
PickDraws(m, items) == IF m = "random" /\ items # <<>> THEN 1..Len(items) ELSE {1}

Choose(key) ==
    /\ ncalls[key] < MaxCalls
    /\ \E pick \in PickDraws(mode, pool[key]) :
         LET r == SelectorChoose(mode, idx, key, pool[key], pick)
         IN  /\ idx' = r.idx
             /\ ret' = [ret EXCEPT ![key] = r.value]
    /\ ncalls' = [ncalls EXCEPT ![key] = @ + 1]
    /\ UNCHANGED <<mode, pool, wc, rd, rh, sb, runVars, runs>>

NextSelector == \E key \in SelKeys : Choose(key)

SpecSelector == InitSelector /\ [][NextSelector]_vars

\* C2: in linear mode the j-th call with a key, counted from the key's initial
\* cursor, returns items[(j - 1) mod K] of that key's pool of size K: the first
\* K calls return the pool in order, each item once, and call K + 1 returns
\* items[0] again.
C2_LinearCycle ==
    mode = "linear" =>
        \A key \in SelKeys :
            ncalls[key] >= 1 =>
                ret[key] = pool[key][((ncalls[key] - 1) % Len(pool[key])) + 1]

C2_Witness ==
    /\ mode = "linear"
    /\ \E key \in SelKeys :
         /\ Len(pool[key]) >= 2
         /\ ncalls[key] = Len(pool[key]) + 1
         /\ ret[key] = pool[key][1]

-----------------------------------------------------------------------------
(* SpecWeighted: calls of weighted_choice *)

InitWeighted ==
    /\ wc \in {[pc |-> "call", pairs |-> ps, max_cap |-> c, r |-> 0,
                result |-> [raised |-> FALSE, value |-> 0]] :
                  ps \in {ATTACH_COUNT_DIST, <<>>}, c \in 0..5}
    /\ SelectorIdle /\ CallerIdle /\ RdIdle /\ RhIdle /\ SbIdle /\ RunIdle /\ RunsIdle

WeightedChoiceCall ==
    /\ wc.pc = "call"
    /\ \E r \in WeightDraws(wc.pairs, wc.max_cap) :
         wc' = [wc EXCEPT !.pc = "done", !.r = r,
                          !.result = WeightedChoice(wc.pairs, wc.max_cap, r)]
    /\ UNCHANGED <<mode, idx, pool, ncalls, ret, rd, rh, sb, runVars, runs>>

NextWeighted == WeightedChoiceCall

SpecWeighted == InitWeighted /\ [][NextWeighted]_vars

\* C7: when no entry of the distribution survives the cap (a cap below 1, or an
\* empty distribution), weighted_choice returns the count 1 and does not fail.
C7_EmptyFilterReturnsOne ==
    (wc.pc = "done" /\ CapFilter(wc.pairs, wc.max_cap) = <<>>) =>
        (~wc.result.raised /\ wc.result.value = 1)

-----------------------------------------------------------------------------
(* SpecDate: calls of random_date_weighted *)

TimeAt(day, hour, minute, second) == day * DaySeconds + (hour * 60 + minute) * 60 + second

StartTimes == {TimeAt(0, 0, 0, 0), TimeAt(0, 10, 0, 0), TimeAt(0, 18, 0, 0)}
EndTimes == UNION {{TimeAt(D, 8, 0, 0), TimeAt(D, 12, 0, 0), TimeAt(D, 23, 59, 59)} : D \in 0..MaxDaySpan}

\* --business_hours 09:00-17:00, and the whole day
Windows == {<<9 * 60, 17 * 60>>, <<0, DayMinutes>>}

\* Of a set of minutes: the ends of its runs and the full hours
MinuteSample(S) == {m \in S : m % 60 = 0 \/ (m - 1) \notin S \/ (m + 1) \notin S}

\* Of a set of minutes: the ends of its runs
MinuteEnds(S) == {m \in S : (m - 1) \notin S \/ (m + 1) \notin S}

\* Of randint(1, 100): the draws around the bias
BiasSample(business_bias) == {1, business_bias, business_bias + 1, 100} \cap BiasDraws

InitDate ==
    /\ rd \in {[pc |-> "call", start |-> s, end |-> e,
                business_start_min |-> w[1], business_end_min |-> w[2], business_bias |-> b,
                in_business |-> FALSE, day |-> 0, candidate |-> 0, dt |-> 0] :
                  s \in StartTimes, e \in EndTimes, w \in Windows, b \in {0, 70, 100}}
    /\ rd.start <= rd.end
    /\ SelectorIdle /\ CallerIdle /\ WcIdle /\ RhIdle /\ SbIdle /\ RunIdle /\ RunsIdle

RandomDateCall ==
    /\ rd.pc = "call"
    /\ \E day_offset \in 0 .. (DateOf(rd.end) - DateOf(rd.start)),
          r100 \in BiasSample(rd.business_bias), second \in SecondSample :
         \E minute_in_day \in MinuteSample(MinuteDraws(rd.business_start_min, rd.business_end_min,
                                                        InBusiness(r100, rd.business_bias))) :
            LET r == RandomDateWeighted(rd.start, rd.end,
                        [day_offset |-> day_offset, minute_in_day |-> minute_in_day,
                         second |-> second])
            IN  rd' = [rd EXCEPT !.pc = "done",
                                 !.in_business = InBusiness(r100, rd.business_bias),
                                 !.day = r.day, !.candidate = r.candidate, !.dt = r.dt]
    /\ UNCHANGED <<mode, idx, pool, ncalls, ret, wc, rh, sb, runVars, runs>>

NextDate == RandomDateCall

SpecDate == InitDate /\ [][NextDate]_vars

\* The case of C5: bias 100 and the window 09:00-17:00
C5_Case ==
    /\ rd.pc = "done"
    /\ rd.business_bias = 100
    /\ rd.business_start_min = 540 /\ rd.business_end_min = 1020

\* C5 as stated: with bias 100 and the window 09:00-17:00 every timestamp
\* returned, a clamped one included, has its minute of day in [540, 1020) on the
\* day that was sampled.
C5_AlwaysInWindow ==
    C5_Case => (DateOf(rd.dt) = rd.day /\ MinuteOfDay(rd.dt) \in 540..1019)

\* C5 amended: with bias 100 and the window 09:00-17:00 the timestamp returned is
\* either the sampled candidate, whose minute of day is in [540, 1020) on the
\* sampled day, or the boundary the candidate was clamped to (start when the
\* candidate is before start, end when it is after end), whatever the minute of
\* that boundary; with start at 00:00:00 and end at 23:59:59 nothing is clamped.
C5_InWindowUnlessClamped ==
    C5_Case =>
        /\ \/ /\ rd.dt = rd.candidate
              /\ DateOf(rd.dt) = rd.day
              /\ MinuteOfDay(rd.dt) \in 540..1019
           \/ rd.candidate < rd.start /\ rd.dt = rd.start
           \/ rd.candidate > rd.end /\ rd.dt = rd.end
        /\ (rd.start % DaySeconds = 0 /\ rd.end % DaySeconds = DaySeconds - 1)
              => rd.dt = rd.candidate

C5_Witness ==
    /\ C5_Case
    /\ rd.dt # rd.candidate
    /\ MinuteOfDay(rd.dt) \notin 540..1019

-----------------------------------------------------------------------------
(* SpecRelay: calls of gen_received_headers *)

InitRelay ==
    /\ rh \in {[pc |-> "call", relay_hosts |-> hs, base_date |-> bd, now |-> TimeAt(1, 0, 0, 5),
                headers |-> <<>>] :
                  hs \in {<<>>, <<"r1">>, <<"r1", "r2">>},
                  bd \in {None, Some(TimeAt(0, 0, 0, 0)), Some(TimeAt(0, 9, 0, 0))}}
    /\ SelectorIdle /\ CallerIdle /\ WcIdle /\ RdIdle /\ SbIdle /\ RunIdle /\ RunsIdle

GenReceivedCall ==
    /\ rh.pc = "call"
    /\ \E d \in RelayDraws(rh.relay_hosts, OffsetMinuteDraws, HopSecondSample, PseudoIdDraws) :
         rh' = [rh EXCEPT !.pc = "done",
                          !.headers = GenReceivedHeaders(rh.relay_hosts, rh.base_date, rh.now, d)]
    /\ UNCHANGED <<mode, idx, pool, ncalls, ret, wc, rd, sb, runVars, runs>>

NextRelay == GenReceivedCall

SpecRelay == InitRelay /\ [][NextRelay]_vars

\* C4: a chain generated from a non-empty host list and a send time has 1 to 3
\* hops, timestamps strictly increasing from the first header to the last, and
\* a last timestamp strictly before the send time.
C4_HopsIncreaseBeforeSend ==
    (rh.pc = "done" /\ rh.relay_hosts # <<>> /\ ~IsNone(rh.base_date)) =>
        /\ Len(rh.headers) \in HopsMin..HopsMax
        /\ \A k \in 1 .. (Len(rh.headers) - 1) :
              /\ rh.headers[k].time < rh.headers[k + 1].time
              /\ rh.headers[k].date.secs < rh.headers[k + 1].date.secs
        /\ rh.headers[Len(rh.headers)].time < Val(rh.base_date)

C4_Witness ==
    /\ rh.pc = "done" /\ ~IsNone(rh.base_date)
    /\ Len(rh.headers) = 3
    /\ rh.headers[3].time = Val(rh.base_date) - 5 * 60 + 3 * 90

\* C12: in a chain generated for a send time, the first (oldest) hop's
\* timestamp is the send time minus an offset of 5 to 15 minutes (any offset
\* from 300 to 900 seconds is accepted here), and each later hop's timestamp
\* is 30 to 90 seconds after the timestamp of the hop before it.
C12_FirstHopOffsetAndSteps ==
    (rh.pc = "done" /\ rh.relay_hosts # <<>> /\ ~IsNone(rh.base_date)) =>
        /\ Val(rh.base_date) - rh.headers[1].time \in (5 * 60)..(15 * 60)
        /\ \A k \in 1 .. (Len(rh.headers) - 1) :
              rh.headers[k + 1].time - rh.headers[k].time \in 30..90

-----------------------------------------------------------------------------
(* SpecSubject: the subject build_email derives, for the bodies run_generation passes *)

RECURSIVE Strings(_)
Strings(n) ==
    IF n = 0 THEN {<<>>}
    ELSE Strings(n - 1) \cup {Append(s, c) : s \in {t \in Strings(n - 1) : Len(t) = n - 1}, c \in Chars}

\* --subject_len: short ones, and the profiles' 50
SubjectLens == {1, 3, 50}

\* The three ways lines 504-533 fill choose_html, chosen_text and chosen_html from a body b
BodyCases(b) ==
    {[is_html |-> FALSE, text_body |-> b, html_body |-> None],
     [is_html |-> TRUE, text_body |-> <<>>, html_body |-> Some(b)],
     [is_html |-> FALSE, text_body |-> strip_html(b), html_body |-> Some(b)]}

InitSubject ==
    /\ sb \in {[pc |-> "call", is_html |-> c.is_html, subject_len |-> n,
                text_body |-> c.text_body, html_body |-> c.html_body, subject |-> <<>>] :
                  c \in UNION {BodyCases(b) : b \in Strings(MaxLen)}, n \in SubjectLens}
    /\ SelectorIdle /\ CallerIdle /\ WcIdle /\ RdIdle /\ RhIdle /\ RunIdle /\ RunsIdle

SubjectCall ==
    /\ sb.pc = "call"
    /\ sb' = [sb EXCEPT !.pc = "done",
                        !.subject = DeriveSubject(sb.is_html, sb.subject_len,
                                                  sb.text_body, sb.html_body)]
    /\ UNCHANGED <<mode, idx, pool, ncalls, ret, wc, rd, rh, runVars, runs>>

NextSubject == SubjectCall

SpecSubject == InitSubject /\ [][NextSubject]_vars

\* C10 as stated: the Subject has no CR and no LF and is at most subject_len
\* characters long, the fallback subject included.
C10_SubjectBounded ==
    sb.pc = "done" =>
        /\ \A k \in 1..Len(sb.subject) : sb.subject[k] \notin Newlines
        /\ Len(sb.subject) <= sb.subject_len

\* C10 amended: the Subject has no CR and no LF, and it is at most subject_len
\* characters long unless it is the literal fallback "No subject" (10
\* characters), which is used whatever subject_len is.
C10_SubjectBoundedOrFallback ==
    sb.pc = "done" =>
        /\ \A k \in 1..Len(sb.subject) : sb.subject[k] \notin Newlines
        /\ Len(sb.subject) <= sb.subject_len \/ sb.subject = NoSubject

C10_Witness ==
    /\ sb.pc = "done"
    /\ sb.subject = NoSubject
    /\ sb.subject_len < Len(NoSubject)

-----------------------------------------------------------------------------
(* run_generation: the loop body, in four steps.  A run's state is the record
   st = [idx, i, pc, sel, count, attach_list, msg, written, failed, warnings];
   the locals of an iteration are cleared when the iteration ends. *)

NoSel == <<>>
NoMsg == <<>>

\* Line 570: f"email_{i:06d}.eml"
FileName(n) == [stem |-> "email_", number |-> n, width |-> 6, ext |-> ".eml"]

\* Lines 501-533: sender, recipient and bodies.  d = [pf, pt, uh, ph, pb] are the draws.
SelectStep(cfg, bad, st, d) ==
    LET m == cfg.selection_mode
        s1 == SelectorChoose(m, st.idx, KEY_FROM, cfg.from_addrs, d.pf)
        s2 == SelectorChoose(m, s1.idx, KEY_TO, cfg.to_addrs, d.pt)
        want_html == d.uh < cfg.html_pct /\ cfg.html_files # <<>>
        s3 == IF want_html THEN SelectorChoose(m, s2.idx, KEY_HTML, cfg.html_files, d.ph)
              ELSE [raised |-> FALSE, value |-> "", idx |-> s2.idx]
        choose_html == want_html /\ s3.value \notin bad
        first_html == IF choose_html THEN Some(FileText(s3.value)) ELSE None
        s4 == IF choose_html THEN s3
              ELSE IF cfg.text_files # <<>>
                   THEN SelectorChoose(m, s3.idx, KEY_TEXT, cfg.text_files, d.pb)
                   ELSE SelectorChoose(m, s3.idx, KEY_HTML, cfg.html_files, d.pb)
        loaded == s4.value \notin bad
        chosen_text == IF choose_html THEN <<>>
                       ELSE IF ~loaded THEN NoText
                       ELSE IF cfg.text_files # <<>> THEN FileText(s4.value)
                       ELSE strip_html(FileText(s4.value))
        chosen_html == IF choose_html \/ cfg.text_files # <<>> \/ ~loaded THEN first_html
                       ELSE Some(FileText(s4.value))
    IN  [st EXCEPT !.idx = s4.idx,
                   !.pc = "attach",
                   !.sel = [from_addr |-> s1.value, to_addr |-> s2.value,
                            choose_html |-> choose_html,
                            chosen_text |-> chosen_text, chosen_html |-> chosen_html]]

\* count calls of selector.choose(KEY_ATTACH, attach_files)
RECURSIVE ChooseN(_, _, _, _)
ChooseN(m, ix, items, n) ==
    IF n = 0 THEN [values |-> <<>>, idx |-> ix]
    ELSE LET r == SelectorChoose(m, ix, KEY_ATTACH, items, 1)
             rest == ChooseN(m, r.idx, items, n - 1)
         IN  [values |-> <<r.value>> \o rest.values, idx |-> rest.idx]

\* Lines 535-547: the attachments.  d = [ua, r, picks] are the draws: picks are the
\* positions random.sample draws, or those of the random.choice calls past the pool.
AttachStep(cfg, st, d) ==
    LET files == cfg.attach_files
        include == files # <<>> /\ d.ua < cfg.attach_pct
        drawn == WeightedChoice(ATTACH_COUNT_DIST, cfg.max_attachments, d.r)
        n == drawn.value
        linear == ChooseN(cfg.selection_mode, st.idx, files, n)
    IN  IF ~include THEN [st EXCEPT !.pc = "build", !.count = 0, !.attach_list = <<>>]
        ELSE IF drawn.raised THEN [st EXCEPT !.pc = "crash"]
        ELSE IF cfg.selection_mode = "linear"
             THEN [st EXCEPT !.pc = "build", !.count = n, !.idx = linear.idx,
                             !.attach_list = linear.values]
        ELSE IF n <= Len(files)
             THEN [st EXCEPT !.pc = "build", !.count = n,
                             !.attach_list = [k \in 1..n |-> files[d.picks[k]]]]
        ELSE [st EXCEPT !.pc = "build", !.count = n,
                        !.attach_list = files \o [k \in 1..(n - Len(files)) |-> files[d.picks[k]]]]

\* Lines 549-556: msg_date.  d = [day_offset, minute_in_day, second, offset] are the draws.
MsgDate(cfg, d) ==
    IF IsNone(cfg.date_start) \/ IsNone(cfg.date_end) THEN None
    ELSE IF ~IsNone(cfg.business)
         THEN Some(RandomDateWeighted(Val(cfg.date_start), Val(cfg.date_end), d).dt)
         ELSE Some(Val(cfg.date_start) + d.offset)       \* random_date_in_range

\* Lines 549-568: the date and the message.  d = [date, relay, bits] are the draws,
\* w = [now, pid, zone] the clock, the process and the local zone.
BuildStep(cfg, bad, st, d, w) ==
    [st EXCEPT !.pc = "write",
               !.msg = BuildEmail(st.sel.from_addr, st.sel.to_addr, st.sel.choose_html,
                                  cfg.subject_len, st.sel.chosen_text, st.sel.chosen_html,
                                  st.attach_list, cfg.relay_hosts, MsgDate(cfg, d.date),
                                  d, w, bad),
               !.warnings = Skipped(st.attach_list, bad)]

\* A slip of the handler: a failed write is logged and the loop goes on.
WriteStepContinue(cfg, st, ok) ==
    [st EXCEPT !.written = IF ok THEN Append(st.written, FileName(st.i)) ELSE st.written,
               !.failed = IF ok THEN st.failed ELSE st.i,
               !.i = st.i + 1,
               !.pc = IF st.i = cfg.num_emails THEN "done" ELSE "select",
               !.sel = NoSel, !.count = 0, !.attach_list = <<>>, !.msg = NoMsg,
               !.warnings = <<>>]

\* A slip of the loop: range(1, total), one iteration short.
WriteStepShort(cfg, st, ok) ==
    IF ok
    THEN [st EXCEPT !.written = Append(st.written, FileName(st.i)),
                    !.i = st.i + 1,
                    !.pc = IF st.i + 1 >= cfg.num_emails THEN "done" ELSE "select",
                    !.sel = NoSel, !.count = 0, !.attach_list = <<>>, !.msg = NoMsg,
                    !.warnings = <<>>]
    ELSE [st EXCEPT !.failed = st.i, !.pc = "exit"]

\* Lines 570-580 and the loop's step: the write of msg as email_<i>.eml; ok is
\* whether open and write succeed.  A failure ends the process (sys.exit(1)).
WriteStep(cfg, st, ok) ==
    IF ok
    THEN [st EXCEPT !.written = Append(st.written, FileName(st.i)),
                    !.i = st.i + 1,
                    !.pc = IF st.i = cfg.num_emails THEN "done" ELSE "select",
                    !.sel = NoSel, !.count = 0, !.attach_list = <<>>, !.msg = NoMsg,
                    !.warnings = <<>>]
    ELSE [st EXCEPT !.failed = st.i, !.pc = "exit"]

\* Lines 474-500: the state when the loop is entered
RunStart ==
    [idx |-> <<>>, i |-> 1, pc |-> "select", sel |-> NoSel, count |-> 0,
     attach_list |-> <<>>, msg |-> NoMsg, written |-> <<>>, failed |-> 0, warnings |-> <<>>]

-----------------------------------------------------------------------------
(* Spec: one run of run_generation *)

FromAddrs == << <<"a", "@", "x">>, <<"b">> >>
ToAddrs == << <<"c", "@", "y">> >>
AttachPool == <<"a.pdf", "b.txt", "c", "d", "e", "f", "g", "h">>

\* html_pct, attach_pct, the body pools, the date range and the unreadable files
Scenarios ==
    {[html_pct |-> 50, attach_pct |-> 50, text_files |-> <<"t1.txt">>, html_files |-> <<"h1.html">>,
      date_start |-> Some(TimeAt(0, 0, 0, 0)), date_end |-> Some(TimeAt(0, 23, 59, 59)),
      business |-> Some([start_min |-> 9 * 60, end_min |-> 17 * 60, bias |-> 100]),
      bad |-> {}],
     [html_pct |-> 0, attach_pct |-> 100, text_files |-> <<"t1.txt", "t2.txt">>, html_files |-> <<>>,
      date_start |-> None, date_end |-> None, business |-> None,
      bad |-> {"a.pdf"}],
     [html_pct |-> 100, attach_pct |-> 50, text_files |-> <<>>, html_files |-> <<"h1.html">>,
      date_start |-> Some(TimeAt(0, 0, 0, 0)), date_end |-> Some(TimeAt(0, 23, 59, 59)),
      business |-> None,
      bad |-> {"h1.html", "b.txt"}]}

Configs ==
    {[selection_mode |-> m, num_emails |-> n, max_attachments |-> c, subject_len |-> 50,
      html_pct |-> sc.html_pct, attach_pct |-> sc.attach_pct,
      date_start |-> sc.date_start, date_end |-> sc.date_end, business |-> sc.business,
      from_addrs |-> FromAddrs, to_addrs |-> ToAddrs, relay_hosts |-> <<"r1">>,
      text_files |-> sc.text_files, html_files |-> sc.html_files,
      attach_files |-> Take(AttachPool, P), bad |-> sc.bad] :
        m \in {"random", "linear"}, n \in 1..MaxEmails, c \in 1..4, P \in 0..MaxPool,
        sc \in Scenarios}

Run ==
    [idx |-> idx, i |-> i, pc |-> pc, sel |-> sel, count |-> count, attach_list |-> attach_list,
     msg |-> msg, written |-> written, failed |-> failed, warnings |-> warnings]

SetRun(st) ==
    /\ idx' = st.idx /\ i' = st.i /\ pc' = st.pc /\ sel' = st.sel /\ count' = st.count
    /\ attach_list' = st.attach_list /\ msg' = st.msg /\ written' = st.written
    /\ failed' = st.failed /\ warnings' = st.warnings

Init ==
    /\ config \in Configs
    /\ unreadable = config.bad
    /\ mode = config.selection_mode
    /\ idx = RunStart.idx /\ i = RunStart.i /\ pc = RunStart.pc /\ sel = RunStart.sel
    /\ count = RunStart.count /\ attach_list = RunStart.attach_list /\ msg = RunStart.msg
    /\ written = RunStart.written /\ failed = RunStart.failed /\ warnings = RunStart.warnings
    /\ CallerIdle /\ WcIdle /\ RdIdle /\ RhIdle /\ SbIdle /\ RunsIdle

\* The draws of lines 501-533
SelectDraws(cfg) ==
    {[pf |-> pf, pt |-> pt, uh |-> uh, ph |-> ph, pb |-> pb] :
        pf \in PickDraws(cfg.selection_mode, cfg.from_addrs),
        pt \in PickDraws(cfg.selection_mode, cfg.to_addrs),
        uh \in Ends(0, 99),
        ph \in PickDraws(cfg.selection_mode, cfg.html_files),
        pb \in PickDraws(cfg.selection_mode,
                         IF cfg.text_files # <<>> THEN cfg.text_files ELSE cfg.html_files)}

\* A slip of the sampling: random.choices in place of random.sample, so a position can repeat.
AttachPickDrawsRepeating(cfg, n) ==
    LET P == Len(cfg.attach_files) IN
    IF cfg.selection_mode = "linear" \/ P = 0 THEN {<<>>}
    ELSE IF n <= P THEN [1..n -> 1..P]
    ELSE [1..(n - P) -> 1..P]

\* The positions random.sample(files, n) can draw, or those of the n - len(files)
\* calls of random.choice past the pool; none in linear mode
AttachPickDraws(cfg, n) ==
    LET P == Len(cfg.attach_files) IN
    IF cfg.selection_mode = "linear" \/ P = 0 THEN {<<>>}
    ELSE IF n <= P THEN {f \in [1..n -> 1..P] : \A a, b \in 1..n : a # b => f[a] # f[b]}
    ELSE [1..(n - P) -> 1..P]

\* The draws of lines 535-547; the count only when attachments are included
AttachDraws(cfg) ==
    UNION {
      IF cfg.attach_files # <<>> /\ ua < cfg.attach_pct
      THEN UNION {{[ua |-> ua, r |-> r, picks |-> ps] :
                      ps \in AttachPickDraws(cfg, WeightedChoice(ATTACH_COUNT_DIST,
                                                                  cfg.max_attachments, r).value)}
                  : r \in WeightDraws(ATTACH_COUNT_DIST, cfg.max_attachments)}
      ELSE {[ua |-> ua, r |-> 0, picks |-> <<>>]}
      : ua \in Ends(0, 99)}

\* Of the draws of lines 549-556: the first and the last second of the minutes drawn from
DateDraws(cfg) ==
    IF IsNone(cfg.date_start) \/ IsNone(cfg.date_end)
    THEN {[day_offset |-> 0, minute_in_day |-> 0, second |-> 0, offset |-> 0]}
    ELSE IF IsNone(cfg.business)
    THEN {[day_offset |-> 0, minute_in_day |-> 0, second |-> 0, offset |-> x] :
            x \in Ends(0, Val(cfg.date_end) - Val(cfg.date_start))}
    ELSE UNION {
           {[day_offset |-> day_offset, minute_in_day |-> x, second |-> (x % 2) * 59, offset |-> 0] :
               x \in MinuteEnds(MinuteDraws(Val(cfg.business).start_min, Val(cfg.business).end_min,
                                            InBusiness(r100, Val(cfg.business).bias))),
               day_offset \in Ends(0, DateOf(Val(cfg.date_end)) - DateOf(Val(cfg.date_start)))}
           : r100 \in Ends(1, 100)}

\* Of the draws of build_email: every hop count, with the least offset, step and id
BuildDraws(cfg) ==
    {[date |-> dd, relay |-> rr, bits |-> <<0, 0, 0, 0>>] :
        dd \in DateDraws(cfg),
        rr \in RelayDraws(cfg.relay_hosts, {5}, {30}, {<<0, 0>>})}

World == [now |-> TimeAt(1, 0, 0, 5), pid |-> 1, zone |-> "+0100"]

Select ==
    /\ pc = "select"
    /\ \E d \in SelectDraws(config) : SetRun(SelectStep(config, unreadable, Run, d))
    /\ UNCHANGED <<mode, config, unreadable, pool, ncalls, ret, wc, rd, rh, sb, runs>>

SelectAttachments ==
    /\ pc = "attach"
    /\ \E d \in AttachDraws(config) : SetRun(AttachStep(config, Run, d))
    /\ UNCHANGED <<mode, config, unreadable, pool, ncalls, ret, wc, rd, rh, sb, runs>>

Build ==
    /\ pc = "build"
    /\ \E d \in BuildDraws(config) : SetRun(BuildStep(config, unreadable, Run, d, World))
    /\ UNCHANGED <<mode, config, unreadable, pool, ncalls, ret, wc, rd, rh, sb, runs>>

Write ==
    /\ pc = "write"
    /\ \E ok \in BOOLEAN : SetRun(WriteStep(config, Run, ok))
    /\ UNCHANGED <<mode, config, unreadable, pool, ncalls, ret, wc, rd, rh, sb, runs>>

Next == Select \/ SelectAttachments \/ Build \/ Write

Spec == Init /\ [][Next]_vars

\* C1: the artifacts written so far are email_1, email_2, ... in this order,
\* with no gap and no repeat; the loop is at the index after the last one
\* written; and a run that ends without a writer failure has iterated exactly
\* num_emails times and written exactly the num_emails artifacts 1..num_emails.
C1_SequentialArtifacts ==
    /\ \A k \in 1..Len(written) : written[k] = FileName(k)
    /\ pc \in {"select", "attach", "build", "write"} => (Len(written) = i - 1 /\ i <= config.num_emails)
    /\ pc = "done" => (failed = 0 /\ Len(written) = config.num_emails /\ i = config.num_emails + 1)

C1_Witness ==
    /\ pc = "done"
    /\ config.num_emails >= 2
    /\ Len(written) = config.num_emails

\* C6: a count drawn for a message is a count of the distribution and is at most
\* max_attachments (1 or 2 when max_attachments is 2), and exactly that many
\* attachment files are selected: between 1 and max_attachments.
C6_CountWithinCap ==
    (pc \in {"build", "write"} /\ (count # 0 \/ attach_list # <<>>)) =>
        /\ \E k \in 1..Len(ATTACH_COUNT_DIST) : ATTACH_COUNT_DIST[k][1] = count
        /\ count <= config.max_attachments
        /\ Len(attach_list) = count
        /\ Len(attach_list) \in 1..config.max_attachments

C6_Witness ==
    /\ pc = "build"
    /\ config.max_attachments = 2
    /\ count = 2 /\ Len(attach_list) = 2

\* C8: once the write of artifact i has failed the run has ended at index i: no
\* later index is assembled or written, index i is not tried again, and the
\* artifacts 1..i-1 are in place as they were written.
C8_AbortOnWriteFailure ==
    failed # 0 =>
        /\ pc = "exit"
        /\ i = failed
        /\ written = [k \in 1..(failed - 1) |-> FileName(k)]

C8_Witness ==
    /\ failed = 2
    /\ pc = "exit"
    /\ Len(written) = 1

\* C9: build_email drops exactly the attachments whose read fails: the message
\* built carries the readable ones of attach_list, in the order selected, and
\* each unreadable one is skipped with a warning; the message is then written as
\* email_<i> (unless the writer fails) and the run goes on with index i + 1.
C9_UnreadableAttachmentDropped ==
    [][/\ pc = "build" =>
            /\ pc' = "write"
            /\ [k \in 1..Len(msg'.attachments) |-> msg'.attachments[k].filename]
                  = SelectSeq(attach_list, LAMBDA ap : ap \notin unreadable)
            /\ warnings' = SelectSeq(attach_list, LAMBDA ap : ap \in unreadable)
       /\ (pc = "write" /\ failed' = 0) =>
            /\ written' = Append(written, FileName(i))
            /\ i' = i + 1
            /\ pc' = IF i = config.num_emails THEN "done" ELSE "select"]_vars

C9_Witness ==
    /\ pc = "write"
    /\ Len(attach_list) >= 2
    /\ attach_list[1] \in unreadable
    /\ Len(msg.attachments) >= 1
    /\ Len(warnings) + Len(msg.attachments) = Len(attach_list)

\* C11: the step that includes attachments with drawn count c over a pool of P
\* files selects exactly c files, with a file twice only if c > P.  In linear
\* mode they are the c consecutive pool entries from the attachment cursor as
\* the earlier messages left it (wrapping at the end of the pool), and the
\* cursor moves on by c; in random mode they are c distinct pool files when
\* c <= P, and the whole pool in order followed by c - P pool files when c > P.
C11_AttachmentSelection ==
    [][(pc = "attach" /\ pc' = "build" /\ count' > 0) =>
          LET files == config.attach_files
              P == Len(files)
              c == count'
              cursor == IdxGet(idx, KEY_ATTACH)
              chosen == attach_list'
          IN  /\ Len(chosen) = c
              /\ (\E a, b \in 1..c : a # b /\ chosen[a] = chosen[b]) => c > P
              /\ config.selection_mode = "linear" =>
                    /\ \A k \in 1..c : chosen[k] = files[((cursor + k - 1) % P) + 1]
                    /\ IdxGet(idx', KEY_ATTACH) = (cursor + c) % P
              /\ config.selection_mode = "random" =>
                    IF c <= P
                    THEN /\ \A k \in 1..c : \E j \in 1..P : chosen[k] = files[j]
                         /\ \A a, b \in 1..c : a # b => chosen[a] # chosen[b]
                    ELSE /\ Take(chosen, P) = files
                         /\ \A k \in (P + 1)..c : \E j \in 1..P : chosen[k] = files[j]]_vars

\* The second message of a linear run takes the last and the first file of a
\* pool of three, from the cursor the first message left at 2.
C11_Witness ==
    /\ pc = "build" /\ i = 2
    /\ config.selection_mode = "linear"
    /\ Len(config.attach_files) = 3
    /\ count = 2
    /\ attach_list = <<config.attach_files[3], config.attach_files[1]>>
    /\ IdxGet(idx, KEY_ATTACH) = 1

-----------------------------------------------------------------------------
(* SpecTwoRuns: two runs of run_generation with one seed, one configuration and
   the same input files.  random.seed(seed) makes the draws of a run a function
   of the seed, so the two runs take the same draws, step by step; each run has
   its own clock and its own process. *)

Worlds ==
    {[now |-> t, pid |-> p, zone |-> "+0100"] :
        t \in {TimeAt(1, 0, 0, 5), TimeAt(1, 0, 0, 6)}, p \in {1, 2}}

InitTwoRuns ==
    /\ config \in {c \in Configs : c.max_attachments <= 2 /\ Len(c.attach_files) <= 2}
    /\ unreadable = config.bad
    /\ mode = config.selection_mode
    /\ runs = [A |-> RunStart, B |-> RunStart]
    /\ idx = <<>> /\ i = 0 /\ pc = "idle" /\ sel = <<>> /\ count = 0 /\ attach_list = <<>>
    /\ msg = <<>> /\ written = <<>> /\ failed = 0 /\ warnings = <<>>
    /\ CallerIdle /\ WcIdle /\ RdIdle /\ RhIdle /\ SbIdle

twoRunsUnchanged ==
    <<mode, idx, pool, ncalls, ret, wc, rd, rh, sb, runVars>>

TwoSelect ==
    /\ runs.A.pc = "select"
    /\ \E d \in SelectDraws(config) :
         runs' = [A |-> SelectStep(config, unreadable, runs.A, d),
                  B |-> SelectStep(config, unreadable, runs.B, d)]
    /\ UNCHANGED twoRunsUnchanged

TwoSelectAttachments ==
    /\ runs.A.pc = "attach"
    /\ \E d \in AttachDraws(config) :
         runs' = [A |-> AttachStep(config, runs.A, d), B |-> AttachStep(config, runs.B, d)]
    /\ UNCHANGED twoRunsUnchanged

TwoBuild ==
    /\ runs.A.pc = "build"
    /\ \E d \in BuildDraws(config), wA \in Worlds, wB \in Worlds :
         runs' = [A |-> BuildStep(config, unreadable, runs.A, d, wA),
                  B |-> BuildStep(config, unreadable, runs.B, d, wB)]
    /\ UNCHANGED twoRunsUnchanged

TwoWrite ==
    /\ runs.A.pc = "write"
    /\ runs' = [A |-> WriteStep(config, runs.A, TRUE), B |-> WriteStep(config, runs.B, TRUE)]
    /\ UNCHANGED twoRunsUnchanged

NextTwoRuns == TwoSelect \/ TwoSelectAttachments \/ TwoBuild \/ TwoWrite

SpecTwoRuns == InitTwoRuns /\ [][NextTwoRuns]_vars

\* C3: two runs with the same seed, configuration and input files build the same
\* artifact for every index and write it under the same name, whatever the
\* clock and the process of each run.
C3_SameArtifacts ==
    /\ runs.A.msg = runs.B.msg
    /\ runs.A.written = runs.B.written

====
